---- MODULE Spec2Model ----
(***************************************************************************)
(* A model of geo_me.py: media files are located through their Exif GPS    *)
(* fields, reverse geocoded, and moved below a destination tree.           *)
(*                                                                         *)
(* Text.  A Python str is a sequence of tokens.  Every character the       *)
(* program treats specially (a blank, ":", "/", ".", "-", "+") is a token  *)
(* of its own; a run of other characters ("GPS Latitude" without its       *)
(* padding, "0.00000000", "date") is written as one token.  split,         *)
(* replace, join, the substring test and the parsing of a path work on     *)
(* these sequences the way the Python operations work on characters.       *)
(*                                                                         *)
(* Exceptions.  A function that may raise returns Ok(v) or Raise(name).    *)
(***************************************************************************)
EXTENDS Integers, Sequences, FiniteSets, TLC

VARIABLES options, search_on_root, idx, pc, files, dirs, files0, dirs0,
          queries, processed, resolved, last, uin, uout

vars == <<options, search_on_root, idx, pc, files, dirs, files0, dirs0,
          queries, processed, resolved, last, uin, uout>>

mainvars == <<options, search_on_root, idx, pc, files, dirs, files0, dirs0,
              queries, processed, resolved, last>>

unitvars == <<uin, uout>>

\* ------------------------------------------------------------------ bounds

\* the longest run of blanks between the two tokens of a raw coordinate
MaxSpaces == 2

\* the number of candidate paths the file enumerator yields in one run
MaxCandidates == 3

\* ------------------------------------------------------------- text helpers

Ok(v) == [ok |-> TRUE, val |-> v, exc |-> "none"]

Raise(e) == [ok |-> FALSE, val |-> <<>>, exc |-> e]

Whitespace == {" ", "\t"}

RECURSIVE SplitWs(_, _, _)
SplitWs(s, cur, acc) ==
    IF s = <<>>
    THEN IF cur = <<>> THEN acc ELSE Append(acc, cur)
    ELSE IF Head(s) \in Whitespace
         THEN SplitWs(Tail(s), <<>>, IF cur = <<>> THEN acc ELSE Append(acc, cur))
         ELSE SplitWs(Tail(s), Append(cur, Head(s)), acc)

\* str.split(): the maximal runs of non-blank text, in order
split(s) == SplitWs(s, <<>>, <<>>)

\* str.replace(old, new) for a one-character old
replace(s, old, new) == [i \in 1..Len(s) |-> IF s[i] = old THEN new ELSE s[i]]

RECURSIVE join(_, _)
\* sep.join(parts)
join(sep, parts) ==
    IF parts = <<>> THEN <<>>
    ELSE IF Len(parts) = 1 THEN parts[1]
    ELSE parts[1] \o sep \o join(sep, Tail(parts))

\* sub in s
Contains(s, sub) ==
    \E i \in 0..(Len(s) - Len(sub)) : SubSeq(s, i + 1, i + Len(sub)) = sub

\* ------------------------------------------------------ program constants

FILENAME_CHOICES == << <<"date">>, <<"date", "+", "location">> >>

GEODATA_KEYWORDS == <<"country", "state", "state_district", "city", "town", "suburb">>

\* the no-fix magnitude tested at line 99
Sentinel == <<"0.00000000">>

\* -------------------------------------------- get_signed_coordinate_element

\* Each function binds its intermediate values as the parameters of a local
\* operator, so that every value is computed once.

get_signed_coordinate_element_swapped(element) ==
    LET signed(toks) ==
            IF Len(toks) < 2 THEN Raise("IndexError")
            ELSE IF toks[2] \in {<<"N">>, <<"E">>} THEN Ok(<<"-">> \o toks[1])
            ELSE Ok(toks[1])
    IN  signed(split(element))

get_signed_coordinate_element(element) ==
    LET signed(toks) ==
            IF Len(toks) < 2 THEN Raise("IndexError")
            ELSE IF toks[2] \in {<<"S">>, <<"W">>} THEN Ok(<<"-">> \o toks[1])
            ELSE Ok(toks[1])
    IN  signed(split(element))

\* ----------------------------------------------------------- pathlib.Path

RECURSIVE SplitOn(_, _, _, _)
\* s.split(sep): the pieces between the separators, empty pieces kept
SplitOn(s, sep, cur, acc) ==
    IF s = <<>> THEN Append(acc, cur)
    ELSE IF Head(s) = sep
         THEN SplitOn(Tail(s), sep, <<>>, Append(acc, cur))
         ELSE SplitOn(Tail(s), sep, Append(cur, Head(s)), acc)

\* the parts of PurePosixPath(s): a leading "/" is the anchor, empty and "."
\* segments are dropped, ".." is kept
PathParts(s) ==
    LET anchored(segs) ==
            IF s # <<>> /\ Head(s) = "/" THEN << <<"/">> >> \o segs ELSE segs
    IN  anchored(SelectSeq(SplitOn(s, "/", <<>>, <<>>),
                           LAMBDA x : x # <<>> /\ x # <<".">>))

IsAbsolute(p) == p # <<>> /\ p[1] = <<"/">>

\* Path(a) / b, and Path(a, b): an absolute right operand replaces the left
PathJoin(a, b) == IF IsAbsolute(b) THEN b ELSE a \o b

\* str(path)
PathStr(p) ==
    IF p = <<>> THEN <<".">>
    ELSE IF IsAbsolute(p) THEN <<"/">> \o join(<<"/">>, Tail(p))
    ELSE join(<<"/">>, p)

\* file.relative_to(other) raises ValueError unless other's parts lead file's
IsRelativeTo(file, other) ==
    /\ Len(other) <= Len(file)
    /\ SubSeq(file, 1, Len(other)) = other

\* every path that leads to p, p included
Prefixes(p) == {SubSeq(p, 1, n) : n \in 0..Len(p)}

Parent(p) == SubSeq(p, 1, Len(p) - 1)

\* -------------------------------------------------------- get_exif_from_file

RECURSIVE LStrip(_)
LStrip(s) == IF s # <<>> /\ Head(s) \in Whitespace THEN LStrip(Tail(s)) ELSE s

RECURSIVE RStrip(_)
RStrip(s) ==
    IF s # <<>> /\ s[Len(s)] \in Whitespace THEN RStrip(SubSeq(s, 1, Len(s) - 1)) ELSE s

\* str.strip()
strip(s) == RStrip(LStrip(s))

\* x.split(':', 1)
SplitColon1(x) ==
    IF \E i \in 1..Len(x) : x[i] = ":"
    THEN LET i == CHOOSE k \in 1..Len(x) :
                      x[k] = ":" /\ \A j \in 1..(k - 1) : x[j] # ":"
         IN  <<SubSeq(x, 1, i - 1), SubSeq(x, i + 1, Len(x))>>
    ELSE <<x>>

\* metadata[key] = value
DictSet(d, key, value) ==
    [k \in (DOMAIN d) \cup {key} |-> IF k = key THEN value ELSE d[k]]

EmptyDict == [k \in {} |-> <<>>]

RECURSIVE ParseLines(_, _)
\* the loop of lines 48-51 over the tool's output lines
ParseLines(raw, metadata) ==
    LET store(parts) ==
            IF Len(parts) < 2 THEN Raise("IndexError")
            ELSE ParseLines(Tail(raw),
                            DictSet(metadata, strip(parts[1]),
                                    SubSeq(parts[2], 2, Len(parts[2]))))
    IN  IF raw = <<>> THEN Ok(metadata) ELSE store(SplitColon1(Head(raw)))

get_exif_from_file_uncaught(out) ==
    IF out.status # 0 THEN Raise("CalledProcessError")
    ELSE ParseLines(out.lines, EmptyDict)

\* out is what the exiftool subprocess gave for the file: its exit status and
\* the lines it printed
get_exif_from_file(out) ==
    IF out.status # 0 THEN Raise("NoGPSDataException")
    ELSE ParseLines(out.lines, EmptyDict)

\* ------------------------------------------------ get_geodata_from_geolocator

\* a geocoder address is a dict in arrival order: a sequence of <<key, value>>
HasKey(location, key) == \E i \in 1..Len(location) : location[i][1] = key

Lookup(location, key) ==
    location[CHOOSE i \in 1..Len(location) : location[i][1] = key][2]

RECURSIVE GeodataLoop(_, _, _)
GeodataLoop(location, keys, geodata) ==
    IF keys = <<>> THEN geodata
    ELSE GeodataLoop(location, Tail(keys),
                     IF HasKey(location, Head(keys))
                     THEN Append(geodata, Lookup(location, Head(keys)))
                     ELSE geodata)

get_geodata_from_geolocator_arrival(location) ==
    LET values(known) == [i \in 1..Len(known) |-> known[i][2]]
    IN  values(SelectSeq(location,
                         LAMBDA kv : \E i \in 1..Len(GEODATA_KEYWORDS) :
                                         GEODATA_KEYWORDS[i] = kv[1]))

get_geodata_from_geolocator(location) ==
    GeodataLoop(location, GEODATA_KEYWORDS, <<>>)

\* ----------------------------------------------------- get_geodata_from_exif

LatKey == <<"GPS Latitude">>

LonKey == <<"GPS Longitude">>

\* lines 93-100: the signed pair, or the exception raised before any query
SignedCoordinates(exif) ==
    LET pair(latitude, longitude) ==
            IF ~longitude.ok THEN longitude
            ELSE IF Sentinel \in {latitude.val, longitude.val}
                 THEN Raise("NoGPSDataException")
                 ELSE Ok(<<latitude.val, longitude.val>>)
        second(latitude) ==
            IF ~latitude.ok THEN latitude
            ELSE IF LonKey \notin DOMAIN exif THEN Raise("NoGPSDataException")
            ELSE pair(latitude, get_signed_coordinate_element(exif[LonKey]))
    IN  IF LatKey \notin DOMAIN exif THEN Raise("NoGPSDataException")
        ELSE second(get_signed_coordinate_element(exif[LatKey]))

\* the query string of line 83
Coordinates(latitude, longitude) == latitude \o <<",", " ">> \o longitude

\* reply is what the Nominatim service gave for the query: an error, or a
\* raw response holding an address.  query is the string sent.
get_geodata_from_gps_cordinates(latitude, longitude, reply) ==
    IF reply.kind = "error"
    THEN [ok |-> FALSE, val |-> <<>>, exc |-> "GeocoderError",
          query |-> Coordinates(latitude, longitude)]
    ELSE [ok |-> TRUE, val |-> get_geodata_from_geolocator(reply.address),
          exc |-> "none", query |-> Coordinates(latitude, longitude)]

NoQuery == <<>>

\* the geodata or the exception, and the query sent to the geocoder if any
get_geodata_from_exif(exif, reply) ==
    LET locate(c) ==
            IF ~c.ok
            THEN [ok |-> FALSE, val |-> <<>>, exc |-> c.exc, query |-> NoQuery]
            ELSE get_geodata_from_gps_cordinates(c.val[1], c.val[2], reply)
    IN  locate(SignedCoordinates(exif))

\* ---------------------------------------------------- get_filename_from_exif

ExtKey == <<"File Type Extension">>

MediaDateKey == <<"Media Create Date">>

DateKey == <<"Create Date">>

get_filename_from_exif_generic_first(exif, format, geodata) ==
    IF ExtKey \notin DOMAIN exif THEN Raise("KeyError")
    ELSE IF MediaDateKey \notin DOMAIN exif /\ DateKey \notin DOMAIN exif
         THEN Raise("KeyError")
    ELSE LET str_date == IF DateKey \in DOMAIN exif
                         THEN exif[DateKey] ELSE exif[MediaDateKey]
             filename == (IF Contains(format, <<"date">>)
                          THEN replace(str_date, ":", "_") ELSE <<>>)
                         \o (IF Contains(format, <<"location">>)
                             THEN join(<<" ">>, geodata) ELSE <<>>)
         IN  Ok(PathParts(filename \o <<".">> \o exif[ExtKey]))

get_filename_from_exif(exif, format, geodata) ==
    IF ExtKey \notin DOMAIN exif THEN Raise("KeyError")
    ELSE IF MediaDateKey \notin DOMAIN exif /\ DateKey \notin DOMAIN exif
         THEN Raise("KeyError")
    ELSE LET extension == exif[ExtKey]
             str_date == IF MediaDateKey \in DOMAIN exif
                         THEN exif[MediaDateKey] ELSE exif[DateKey]
             formatted_date == replace(str_date, ":", "_")
             filename == (IF Contains(format, <<"date">>)
                          THEN formatted_date ELSE <<>>)
                         \o (IF Contains(format, <<"location">>)
                             THEN join(<<" ">>, geodata) ELSE <<>>)
         IN  Ok(PathParts(filename \o <<".">> \o extension))

\* --------------------------------------------------------------- filesystem
\* files maps each path that holds a regular file to its content: its byte
\* size and the path the content had when the run began.  dirs is the set of
\* directories.  io says whether the operating system lets a mkdir or a move
\* through (a permission, a full disk).

Exists(p, fs_files, fs_dirs) == p \in DOMAIN fs_files \/ p \in fs_dirs

\* st_size; the size a directory reports is never a file's here
StatSize(p, fs_files) == IF p \in DOMAIN fs_files THEN fs_files[p].size ELSE 0

\* shutil.move(origin, target) onto a free path
Moved(fs_files, origin, target) ==
    [p \in ((DOMAIN fs_files) \ {origin}) \cup {target} |->
        IF p = target THEN fs_files[origin] ELSE fs_files[p]]

\* ---------------------------------------------------------- create_geo_folder

\* Path(root, '/'.join(geodata)).mkdir(parents=True, exist_ok=True): every
\* missing directory on the way is made; a regular file on the way is an error
create_geo_folder(root, geodata, fs_files, fs_dirs, io) ==
    LET mkdir(path) ==
            IF ~io.mkdir THEN Raise("OSError")
            ELSE IF \E q \in Prefixes(path) : q \in DOMAIN fs_files
                 THEN Raise("FileExistsError")
            ELSE Ok([path |-> path, dirs |-> fs_dirs \cup Prefixes(path)])
    IN  mkdir(PathJoin(PathParts(root), PathParts(join(<<"/">>, geodata))))

\* ------------------------------------ reallocate_original_file_to_destination

reallocate_original_file_to_destination_overwrite(origin, path, filename, fs_files, fs_dirs, io) ==
    LET relocate(new_file_path, exists) ==
            IF exists /\ StatSize(origin, fs_files) = StatSize(new_file_path, fs_files)
            THEN [exc |-> "none", log |-> "duplicate", files |-> fs_files,
                  target |-> new_file_path, existed |-> TRUE]
            ELSE IF ~io.move THEN
                 [exc |-> "OSError", log |-> "none", files |-> fs_files,
                  target |-> new_file_path, existed |-> exists]
            ELSE IF Parent(new_file_path) \notin fs_dirs THEN
                 [exc |-> "FileNotFoundError", log |-> "none", files |-> fs_files,
                  target |-> new_file_path, existed |-> exists]
            ELSE [exc |-> "none", log |-> "moved",
                  files |-> Moved(fs_files, origin, new_file_path),
                  target |-> new_file_path, existed |-> exists]
    IN  relocate(PathJoin(path, filename),
                 Exists(PathJoin(path, filename), fs_files, fs_dirs))

reallocate_original_file_to_destination(origin, path, filename, fs_files, fs_dirs, io) ==
    LET relocate(new_file_path, exists) ==
            IF exists
            THEN [exc |-> "none",
                  log |-> IF StatSize(origin, fs_files) = StatSize(new_file_path, fs_files)
                          THEN "duplicate" ELSE "conflict",
                  files |-> fs_files, target |-> new_file_path, existed |-> TRUE]
            ELSE IF ~io.move THEN
                 [exc |-> "OSError", log |-> "none", files |-> fs_files,
                  target |-> new_file_path, existed |-> FALSE]
            ELSE IF Parent(new_file_path) \notin fs_dirs THEN
                 [exc |-> "FileNotFoundError", log |-> "none", files |-> fs_files,
                  target |-> new_file_path, existed |-> FALSE]
            ELSE [exc |-> "none", log |-> "moved",
                  files |-> Moved(fs_files, origin, new_file_path),
                  target |-> new_file_path, existed |-> FALSE]
    IN  relocate(PathJoin(path, filename),
                 Exists(PathJoin(path, filename), fs_files, fs_dirs))

\* ------------------------------------------------------------------ geolocate
\* The result of one call: exc is the exception that leaves geolocate ("none"
\* when it returns), log the error it logged or "moved", files and dirs the
\* file system it leaves, query what was sent to the geocoder, stage how far
\* the pipeline came.

NoPath == << <<"?">> >>

Result(exc, log, stage, query, fs_files, fs_dirs, path, target, existed) ==
    [exc |-> exc, log |-> log, stage |-> stage, query |-> query,
     files |-> fs_files, dirs |-> fs_dirs, path |-> path, target |-> target,
     existed |-> existed]

Caught_all(e, stage, query, fs_files, fs_dirs) ==
    Result("none", "nogps", stage, query, fs_files, fs_dirs, NoPath, NoPath, FALSE)

\* the except clause of lines 144-146: NoGPSDataException is logged and
\* geolocate returns; any other exception leaves geolocate
Caught(e, stage, query, fs_files, fs_dirs) ==
    IF e = "NoGPSDataException"
    THEN Result("none", "nogps", stage, query, fs_files, fs_dirs, NoPath, NoPath, FALSE)
    ELSE Result(e, "none", stage, query, fs_files, fs_dirs, NoPath, NoPath, FALSE)

geolocate(file, destination, format, out, reply, io, fs_files, fs_dirs) ==
    LET moved(geodata, folder, r) ==
            Result(r.exc, r.log, "relocate", geodata.query, r.files,
                   folder.val.dirs, folder.val.path, r.target, r.existed)
        named(geodata, folder, filename) ==
            IF ~filename.ok
            THEN Result(filename.exc, "none", "filename", geodata.query, fs_files,
                        folder.val.dirs, folder.val.path, NoPath, FALSE)
            ELSE moved(geodata, folder,
                       reallocate_original_file_to_destination(
                           file, folder.val.path, filename.val, fs_files,
                           folder.val.dirs, io))
        foldered(exif, geodata, folder) ==
            IF ~folder.ok
            THEN Result(folder.exc, "none", "folder", geodata.query, fs_files,
                        fs_dirs, NoPath, NoPath, FALSE)
            ELSE named(geodata, folder,
                       get_filename_from_exif(exif.val, format, geodata.val))
        located(exif, geodata) ==
            IF ~geodata.ok
            THEN Caught(geodata.exc, "geodata", geodata.query, fs_files, fs_dirs)
            ELSE foldered(exif, geodata,
                          create_geo_folder(destination, geodata.val, fs_files,
                                            fs_dirs, io))
        extracted(exif) ==
            IF ~exif.ok
            THEN Caught(exif.exc, "exif", NoQuery, fs_files, fs_dirs)
            ELSE located(exif, get_geodata_from_exif(exif.val, reply))
    IN  extracted(get_exif_from_file(out))

\* --------------------------------------------------------------------- inputs

\* one line of exiftool's output: the key, padding, the colon, a blank, the value
Line(key, value) == <<key, " ", " ", ":", " ">> \o value

DateA == <<"2020", ":", "01", ":", "02", " ", "10", ":", "00", ":", "00">>

DateB == <<"2019", ":", "12", ":", "31", " ", "23", ":", "59", ":", "59">>

Jpg == <<"jpg">>

OutFail == [status |-> 1, lines |-> <<>>]

OutNoGps ==
    [status |-> 0,
     lines |-> <<Line("Create Date", DateA), Line("File Type Extension", Jpg)>>]

OutNoFixN ==
    [status |-> 0,
     lines |-> <<Line("GPS Latitude", <<"0.00000000", " ", "N">>),
                 Line("GPS Longitude", <<"0.00000000", " ", "E">>),
                 Line("Create Date", DateA), Line("File Type Extension", Jpg)>>]

OutNoFixS ==
    [status |-> 0,
     lines |-> <<Line("GPS Latitude", <<"0.00000000", " ", "S">>),
                 Line("GPS Longitude", <<"2.17", " ", "W">>),
                 Line("Create Date", DateA), Line("File Type Extension", Jpg)>>]

OutMedia ==
    [status |-> 0,
     lines |-> <<Line("File Type Extension", Jpg),
                 Line("Create Date", DateB), Line("Media Create Date", DateA),
                 Line("GPS Latitude", <<"41.38", " ", "N">>),
                 Line("GPS Longitude", <<"2.17", " ", "E">>)>>]

OutCreate ==
    [status |-> 0,
     lines |-> <<Line("File Type Extension", Jpg), Line("Create Date", DateA),
                 Line("GPS Latitude", <<"41.38", " ", "S">>),
                 Line("GPS Longitude", <<"2.17", " ", "W">>)>>]

OutNoExt ==
    [status |-> 0,
     lines |-> <<Line("Create Date", DateA),
                 Line("GPS Latitude", <<"41.38", " ", "N">>),
                 Line("GPS Longitude", <<"2.17", " ", "E">>)>>]

OutMalformed ==
    [status |-> 0, lines |-> << <<"Warning", " ", "-", " ", "bad", " ", "file">> >>]

NoOut == [status |-> 0, lines |-> <<>>]

ToolOutputs ==
    {OutFail, OutNoGps, OutNoFixN, OutNoFixS, OutMedia, OutCreate, OutNoExt,
     OutMalformed}

ReplyError == [kind |-> "error", address |-> <<>>]

ReplySpain ==
    [kind |-> "ok",
     address |-> << <<"road", <<"Gran", " ", "Via">> >>,
                    <<"state", <<"Madrid">> >>,
                    <<"country", <<"Spain">> >> >>]

ReplyBiel ==
    [kind |-> "ok", address |-> << <<"city", <<"Biel", "/", "Bienne">> >> >>]

Replies == {ReplyError, ReplySpain, ReplyBiel}

IoOk == [mkdir |-> TRUE, move |-> TRUE]

Ios == {IoOk, [mkdir |-> FALSE, move |-> TRUE], [mkdir |-> TRUE, move |-> FALSE]}

Names == <<"f1", "f2", "f3", "f4", "f5">>

Kinds == {"file", "dir", "inside"}

\* ----------------------------------------------------------------------- main

\* Path(options.destination)
DestinationPath(opts) == PathParts(opts.destination)

\* the k-th path the glob yields: below the root; "inside" is below the
\* destination too
CandidatePath(opts, kinds, k) ==
    (IF kinds[k] = "inside" THEN DestinationPath(opts) ELSE PathParts(opts.root))
    \o << <<Names[k]>> >>

FileSize(k) == 1 + (k % 2)

\* where a file with OutMedia's fields and ReplySpain's address goes
SpainTarget(opts) ==
    PathJoin(PathJoin(DestinationPath(opts),
                      PathParts(join(<<"/">>, get_geodata_from_geolocator(ReplySpain.address)))),
             get_filename_from_exif(get_exif_from_file(OutMedia).val, opts.format,
                                    get_geodata_from_geolocator(ReplySpain.address)).val)

\* a regular file where create_geo_folder wants a directory
SpainBlocker(opts) == DestinationPath(opts) \o << <<"Spain">> >>

Idle == [index |-> 0, file |-> NoPath, kind |-> "none", exc |-> "none",
         log |-> "none", stage |-> "none", query |-> NoQuery, out |-> NoOut,
         reply |-> ReplyError, io |-> IoOk, path |-> NoPath, target |-> NoPath, existed |-> FALSE]

Init ==
    /\ options \in [root : {<<"r">>},
                    destination : {<<".", "/", "r", "/", "d">>, <<"d">>},
                    format : {FILENAME_CHOICES[i] : i \in 1..Len(FILENAME_CHOICES)}]
    /\ \E kinds \in [1..MaxCandidates -> Kinds], pre \in {"none", "target", "blocker"} :
         /\ \A k \in 1..MaxCandidates :
                kinds[k] = "inside" =>
                    IsRelativeTo(DestinationPath(options), PathParts(options.root))
         /\ search_on_root = [k \in 1..MaxCandidates |-> CandidatePath(options, kinds, k)]
         /\ \E cand \in {{k \in 1..MaxCandidates : kinds[k] # "dir"}},
               extra \in {IF pre = "target" THEN {SpainTarget(options)}
                          ELSE IF pre = "blocker" THEN {SpainBlocker(options)}
                          ELSE {}} :
              /\ files = [p \in {search_on_root[k] : k \in cand} \cup extra |->
                            IF p \in extra THEN [size |-> 1, id |-> p]
                            ELSE [size |-> FileSize(CHOOSE j \in cand :
                                                       search_on_root[j] = p),
                                  id |-> p]]
              /\ dirs = UNION {Prefixes(Parent(p)) : p \in DOMAIN files}
                        \cup {search_on_root[k] : k \in (1..MaxCandidates) \ cand}
                        \cup Prefixes(PathParts(options.root))
    /\ idx = 1
    /\ pc = "loop"
    /\ files0 = files
    /\ dirs0 = dirs
    /\ queries = 0
    /\ processed = {}
    /\ resolved = EmptyDict
    /\ last = Idle
    /\ uin = <<>>
    /\ uout = <<>>

AtDestination_never(file, destination) == FALSE

\* file.relative_to(Path(options.destination)) returns instead of raising
AtDestination(file, destination) == IsRelativeTo(file, PathParts(destination))

\* lines 159-160: a directory is skipped
SkipDirectory ==
    /\ pc = "loop"
    /\ idx <= Len(search_on_root)
    /\ search_on_root[idx] \in dirs
    /\ last' = [Idle EXCEPT !.index = idx, !.file = search_on_root[idx], !.kind = "dir"]
    /\ idx' = idx + 1
    /\ UNCHANGED <<options, search_on_root, pc, files, dirs, files0, dirs0,
                   queries, processed, resolved, uin, uout>>

\* lines 162-164: a file below the destination is reported and left alone
SkipAtDestination ==
    /\ pc = "loop"
    /\ idx <= Len(search_on_root)
    /\ search_on_root[idx] \notin dirs
    /\ AtDestination(search_on_root[idx], options.destination)
    /\ last' = [Idle EXCEPT !.index = idx, !.file = search_on_root[idx],
                            !.kind = "at_destination"]
    /\ idx' = idx + 1
    /\ UNCHANGED <<options, search_on_root, pc, files, dirs, files0, dirs0,
                   queries, processed, resolved, uin, uout>>

\* lines 166-167: any other file goes through geolocate; an exception that
\* leaves geolocate leaves main too
Geolocate ==
    /\ pc = "loop"
    /\ idx <= Len(search_on_root)
    /\ search_on_root[idx] \notin dirs
    /\ ~AtDestination(search_on_root[idx], options.destination)
    /\ \E out \in ToolOutputs, reply \in Replies, io \in Ios :
         \E r \in {geolocate(search_on_root[idx], options.destination,
                             options.format, out, reply, io, files, dirs)} :
             /\ files' = r.files
             /\ dirs' = r.dirs
             /\ queries' = queries + (IF r.query = NoQuery THEN 0 ELSE 1)
             /\ processed' = processed \cup {idx}
             /\ resolved' = IF r.stage = "relocate"
                            THEN DictSet(resolved, idx, r.target) ELSE resolved
             /\ last' = [index |-> idx, file |-> search_on_root[idx],
                         kind |-> "geolocate", exc |-> r.exc, log |-> r.log,
                         stage |-> r.stage, query |-> r.query, out |-> out,
                         reply |-> reply, io |-> io, path |-> r.path, target |-> r.target,
                         existed |-> r.existed]
             /\ IF r.exc = "none"
                THEN idx' = idx + 1 /\ pc' = pc
                ELSE idx' = idx /\ pc' = "aborted"
    /\ UNCHANGED <<options, search_on_root, files0, dirs0, uin, uout>>

\* the generator is exhausted: main returns
Finish ==
    /\ pc = "loop"
    /\ idx > Len(search_on_root)
    /\ pc' = "done"
    /\ UNCHANGED <<options, search_on_root, idx, files, dirs, files0, dirs0,
                   queries, processed, resolved, last, uin, uout>>

Next == SkipDirectory \/ SkipAtDestination \/ Geolocate \/ Finish

Spec == Init /\ [][Next]_vars

\* ------------------------------------------------ the functions on their own
\* Each of the three specifications below draws an input for one function
\* and applies the function to it; main does not run.

MainIdle ==
    /\ options = [root |-> <<"r">>, destination |-> <<"d">>,
                  format |-> FILENAME_CHOICES[1]]
    /\ search_on_root = <<>>
    /\ idx = 1
    /\ pc = "unit"
    /\ files = EmptyDict
    /\ dirs = {<<>>}
    /\ files0 = files
    /\ dirs0 = dirs
    /\ queries = 0
    /\ processed = {}
    /\ resolved = EmptyDict
    /\ last = Idle

NotApplied == [done |-> FALSE, res |-> Raise("none")]

Blanks(n) == [i \in 1..n |-> " "]

Magnitudes == {<<"0.00000000">>, <<"41.38">>, <<"2.17">>, <<"180">>, <<"-", "3">>}

Letters == {"N", "S", "E", "W", "X", "s", "none"}

\* a raw coordinate: blanks, the magnitude, blanks, the hemisphere letter
RawCoordinate(lead, mag, spaces, letter) ==
    Blanks(lead) \o mag \o
    (IF letter = "none" THEN <<>> ELSE Blanks(spaces) \o <<letter>>)

InitSign ==
    /\ MainIdle
    /\ \E lead \in 0..1, mag \in Magnitudes, spaces \in 1..MaxSpaces,
          letter \in Letters :
          uin = [mag |-> mag, letter |-> letter, spaces |-> spaces,
                 raw |-> RawCoordinate(lead, mag, spaces, letter)]
    /\ uout = NotApplied

ApplySign ==
    /\ ~uout.done
    /\ uout' = [done |-> TRUE, res |-> get_signed_coordinate_element(uin.raw)]
    /\ UNCHANGED <<mainvars, uin>>

NextSign == ApplySign

SpecSign == InitSign /\ [][NextSign]_vars

\* the longest address the geocoder answers with
MaxAddress == 3

AddressKeys ==
    {"country", "state", "state_district", "city", "town", "suburb", "road"}

PlaceNames == << <<"Spain">>, <<"Madrid">>, <<"Centro">>, <<"Sol">>, <<"Ocho">> >>

\* the addresses of n keys, in every arrival order; the i-th to arrive is
\* named PlaceNames[i]
Addresses(n) ==
    {[i \in 1..n |-> <<ks[i], PlaceNames[i]>>] :
        ks \in {f \in [1..n -> AddressKeys] :
                   \A i, j \in 1..n : i # j => f[i] # f[j]}}

InitGeo ==
    /\ MainIdle
    /\ \E n \in 0..MaxAddress : uin \in Addresses(n)
    /\ uout = NotApplied

ApplyGeo ==
    /\ ~uout.done
    /\ uout' = [done |-> TRUE, res |-> Ok(get_geodata_from_geolocator(uin))]
    /\ UNCHANGED <<mainvars, uin>>

NextGeo == ApplyGeo

SpecGeo == InitGeo /\ [][NextGeo]_vars

\* the longest geodata list a filename is built from
MaxTerms == 2

Terms == {<<"Spain">>, <<"Madrid">>, <<"Biel", "/", "Bienne">>}

Geodatas ==
    UNION {{g \in [1..n -> Terms] : \A i, j \in 1..n : i # j => g[i] # g[j]} :
              n \in 0..MaxTerms}

Formats ==
    {<<"date">>, <<"date", "+", "location">>, <<"location">>, <<"name">>}

\* the metadata of a file: the extension and whichever dates it carries
Metadata(media, create, ext) ==
    [k \in {ExtKey} \cup (IF media = <<>> THEN {} ELSE {MediaDateKey})
                    \cup (IF create = <<>> THEN {} ELSE {DateKey}) |->
        IF k = ExtKey THEN ext ELSE IF k = MediaDateKey THEN media ELSE create]

InitName ==
    /\ MainIdle
    /\ \E media \in {<<>>, DateA}, create \in {<<>>, DateB},
          ext \in {<<"jpg">>, <<"mp4">>}, format \in Formats, geodata \in Geodatas :
          uin = [media |-> media, create |-> create, ext |-> ext,
                 format |-> format, geodata |-> geodata,
                 exif |-> Metadata(media, create, ext)]
    /\ uout = NotApplied

ApplyName ==
    /\ ~uout.done
    /\ uout' = [done |-> TRUE,
                res |-> get_filename_from_exif(uin.exif, uin.format, uin.geodata)]
    /\ UNCHANGED <<mainvars, uin>>

NextName == ApplyName

SpecName == InitName /\ [][NextName]_vars

\* --------------------------------------------------------------- properties

\* C1: when something already exists at the computed target path, the step of
\* geolocate leaves every file as it was (the source stays at its path, the
\* target keeps its content) and only logs: a duplicate when the two sizes
\* are equal, a conflict when they differ.
C1_OccupiedTargetLeftAlone ==
    [][(/\ processed' # processed
        /\ last'.stage = "relocate"
        /\ Exists(last'.target, files, dirs'))
       => /\ files' = files
          /\ last'.file \in DOMAIN files'
          /\ last'.exc = "none"
          /\ last'.log = IF StatSize(last'.file, files) = StatSize(last'.target, files)
                         THEN "duplicate" ELSE "conflict"]_vars

C1_Witness ==
    /\ last.stage = "relocate"
    /\ last.existed
    /\ last.log = "conflict"
    /\ last.target \in DOMAIN files
    /\ last.file \in DOMAIN files

\* C2: when extraction, coordinates, geocoding and the filename succeed, the
\* operating system refuses nothing and nothing exists at the target path,
\* geolocate has made every directory of the destination path and moved the
\* source to the target: the target holds the file, the original path is gone.
C2_FreeTargetReceivesFile ==
    (/\ last.kind = "geolocate"
     /\ last.stage = "relocate"
     /\ ~last.existed
     /\ last.io = IoOk)
    => /\ last.log = "moved"
       /\ last.exc = "none"
       /\ last.target \in DOMAIN files
       /\ files[last.target].id = last.file
       /\ last.file \notin DOMAIN files
       /\ Prefixes(last.path) \subseteq dirs

\* C3: a candidate below the destination root, and a candidate that is a
\* directory, is never passed to geolocate, and a file among them is still
\* at its path with its content.
C3_BelowDestinationNeverGeolocated ==
    \A k \in 1..Len(search_on_root) :
        (\/ IsRelativeTo(search_on_root[k], DestinationPath(options))
         \/ search_on_root[k] \in dirs0)
        => /\ k \notin processed
           /\ (last.index = k => last.kind \in {"dir", "at_destination"})
           /\ (search_on_root[k] \in DOMAIN files0
               => /\ search_on_root[k] \in DOMAIN files
                  /\ files[search_on_root[k]] = files0[search_on_root[k]])

C3_Witness ==
    /\ last.kind = "at_destination"
    /\ last.file \in DOMAIN files
    /\ processed # {}
    /\ \E p \in DOMAIN files : files[p].id # p

\* C4: when the extraction tool ends with an error status, or line 97 or 100
\* raises NoGPSDataException (a coordinate field is absent, or a signed
\* coordinate is the no-fix value), the step moves no file, makes no
\* directory, asks no geocoder, and main goes on with the next candidate.
C4_NoGpsRecovered ==
    [][(/\ processed' # processed
        /\ \/ last'.out.status # 0
           \/ LET raised(exif) ==
                      /\ exif.ok
                      /\ SignedCoordinates(exif.val).exc = "NoGPSDataException"
              IN  raised(ParseLines(last'.out.lines, EmptyDict)))
       => /\ files' = files
          /\ dirs' = dirs
          /\ queries' = queries
          /\ last'.log = "nogps"
          /\ pc' = "loop"
          /\ idx' = idx + 1]_vars

C4_Witness ==
    /\ last.kind = "geolocate"
    /\ last.out.status # 0
    /\ last.log = "nogps"
    /\ pc = "loop"
    /\ idx = last.index + 1
    /\ idx <= Len(search_on_root)

\* C5: when the magnitude of GPS Latitude or of GPS Longitude is the no-fix
\* value, whatever letter follows it, geolocate logs the file as having no
\* GPS data and sends no query to the geocoder.
C5_NoFixWhateverHemisphere ==
    (/\ last.kind = "geolocate"
     /\ last.out.status = 0
     /\ LET nofix(exif) ==
                /\ exif.ok
                /\ {LatKey, LonKey} \subseteq DOMAIN exif.val
                /\ \E key \in {LatKey, LonKey} :
                       LET toks == split(exif.val[key])
                       IN  Len(toks) = 2 /\ toks[1] = Sentinel
        IN  nofix(ParseLines(last.out.lines, EmptyDict)))
    => /\ last.log = "nogps"
       /\ last.query = NoQuery

\* C6: for a raw coordinate "<mag> <letter>", get_signed_coordinate_element
\* returns "-<mag>" when the letter is S or W and <mag> for any other letter.
C6_SignFollowsHemisphere ==
    (uout.done /\ uin.letter # "none")
    => uout.res = IF uin.letter \in {"S", "W"}
                  THEN Ok(<<"-">> \o uin.mag) ELSE Ok(uin.mag)

C6_Witness ==
    /\ uout.done
    /\ uin.letter = "W"
    /\ uin.spaces = MaxSpaces
    /\ uin.mag = <<"2.17">>
    /\ uout.res.val = <<"-", "2.17">>

\* C7: get_geodata_from_geolocator returns the values of those of the six
\* keys country, state, state_district, city, town, suburb that the address
\* holds, in that order and nothing else, whatever the order of arrival.
C7_GeodataInHierarchyOrder ==
    uout.done
    => LET held(present) ==
               /\ Len(uout.res.val) = Len(present)
               /\ \A i \in 1..Len(present) :
                      \E j \in 1..Len(uin) :
                          uin[j][1] = present[i] /\ uout.res.val[i] = uin[j][2]
       IN  held(SelectSeq(<<"country", "state", "state_district", "city",
                            "town", "suburb">>,
                          LAMBDA key : \E j \in 1..Len(uin) : uin[j][1] = key))

C7_Witness ==
    /\ uout.done
    /\ uin = << <<"road", PlaceNames[1]>>, <<"state", PlaceNames[2]>>,
                <<"country", PlaceNames[3]>> >>
    /\ uout.res.val = <<PlaceNames[3], PlaceNames[2]>>

\* C8: get_filename_from_exif returns D ++ L ++ "." ++ extension: D is the
\* timestamp with "_" for every ":" when the mode contains "date", L the
\* terms joined by one blank when the mode contains "location"; the timestamp
\* is Media Create Date when present and Create Date otherwise.
C8_FilenameComposition ==
    (uout.done /\ (uin.media # <<>> \/ uin.create # <<>>))
    => LET named(ts) ==
               /\ uout.res.ok
               /\ PathStr(uout.res.val) =
                      (IF Contains(uin.format, <<"date">>)
                       THEN [i \in 1..Len(ts) |-> IF ts[i] = ":" THEN "_" ELSE ts[i]]
                       ELSE <<>>)
                      \o (IF Contains(uin.format, <<"location">>)
                          THEN join(<<" ">>, uin.geodata) ELSE <<>>)
                      \o <<".">> \o uin.ext
       IN  named(IF uin.media # <<>> THEN uin.media ELSE uin.create)

C8_Witness ==
    /\ uout.done
    /\ uin.media = DateA
    /\ uin.create = DateB
    /\ uin.format = <<"date", "+", "location">>
    /\ uin.geodata = << <<"Spain">>, <<"Madrid">> >>
    /\ PathStr(uout.res.val) =
           <<"2020", "_", "01", "_", "02", " ", "10", "_", "00", "_", "00",
             "Spain", " ", "Madrid", ".">> \o uin.ext

\* C9: a geocoder error, an error of mkdir or move, or any other exception
\* than NoGPSDataException leaves geolocate and main: the run ends at that
\* file with the files as they were before it, no later candidate is
\* processed, and nothing happens afterwards.
C9_OtherFailureEndsRun ==
    [][/\ (/\ processed' # processed
           /\ \/ last'.query # NoQuery /\ last'.reply.kind = "error"
              \/ last'.stage = "folder"
              \/ last'.stage = "filename"
              \/ last'.stage = "relocate" /\ ~last'.existed /\ ~last'.io.move)
          => last'.exc # "none"
       /\ (processed' # processed /\ last'.exc # "none")
          => /\ pc' = "aborted"
             /\ files' = files
             /\ \A k \in (idx + 1)..Len(search_on_root) :
                    /\ k \notin processed'
                    /\ (search_on_root[k] \in DOMAIN files0
                        => search_on_root[k] \in DOMAIN files')
       /\ pc = "aborted" => UNCHANGED vars]_vars

C9_Witness ==
    /\ pc = "aborted"
    /\ last.exc = "GeocoderError"
    /\ last.index < Len(search_on_root)
    /\ \E p \in DOMAIN files : files[p].id # p

\* C10: at every point of a run no directory is gone, every file of the
\* start is at exactly one path with its content, its own path or one below
\* the destination, and of two candidates that resolve to one target the
\* later one is still at its own path while the target holds the earlier one
\* or what was there before the run.
C10_NothingLost ==
    /\ dirs0 \subseteq dirs
    /\ \A q \in DOMAIN files : files[q].id \in DOMAIN files0
    /\ \A p \in DOMAIN files0 :
           \E q \in DOMAIN files :
               /\ files[q] = files0[p]
               /\ \A q2 \in DOMAIN files : files[q2].id = p => q2 = q
               /\ (q = p \/ IsRelativeTo(q, DestinationPath(options)))
    /\ \A k \in DOMAIN resolved :
           \E first \in DOMAIN resolved :
               /\ resolved[first] = resolved[k]
               /\ \A j \in DOMAIN resolved : resolved[j] = resolved[k] => first <= j
               /\ first # k
                  => /\ search_on_root[k] \in DOMAIN files
                     /\ files[search_on_root[k]].id = search_on_root[k]
                     /\ resolved[k] \in DOMAIN files
               /\ resolved[k] \in DOMAIN files
                  => \/ files[resolved[k]].id = search_on_root[first]
                     \/ resolved[k] \in DOMAIN files0

C10_Witness ==
    /\ pc = "done"
    /\ \E j, k \in DOMAIN resolved :
           /\ j < k
           /\ resolved[j] = resolved[k]
           /\ files[resolved[j]].id = search_on_root[j]
           /\ search_on_root[k] \in DOMAIN files

====
